---- MODULE Spec2Model ----
(***************************************************************************)
(* Model of the room session state machine of quizwiz (src/app.py).        *)
(*                                                                         *)
(* Every Socket.IO handler of app.py is one action.  Handlers run on a     *)
(* cooperative event loop, so a handler is atomic up to the one point at   *)
(* which it yields: socketio.sleep(1) in receive_answer.  The part of      *)
(* receive_answer after the sleep (the call of next_round) is therefore an *)
(* action of its own, after_sleep, and `pending` counts the handlers that  *)
(* are asleep.                                                             *)
(*                                                                         *)
(* A handler is an operator from the state in which it is called and its   *)
(* payload to its outcomes: the new `rooms`, the notifications it emits    *)
(* (`out`, in order), whether it goes to sleep, whether end_game ran and   *)
(* whether it raised the caller's score.  The action of the handler takes  *)
(* one outcome.  Notifications are handed to the transport and are no      *)
(* state of the program.                                                   *)
(***************************************************************************)
EXTENDS Integers, Sequences, FiniteSets, TLC

VARIABLES
    rooms,      \* app.py `rooms`: room id -> game state dict (init_game)
    pending,    \* room id -> number of receive_answer calls asleep in socketio.sleep(1)
    over,       \* history: room id -> end_game has run for the room's game
    scored      \* history: room id -> the sids whose score rose in the current round

vars == <<rooms, pending, over, scored>>

(***************************************************************************)
(* Python values.                                                          *)
(***************************************************************************)
None == "None"          \* None where the other values are strings
NoAnswer == <<>>        \* None in an answer slot; an answer index i is <<i>>
EmptyDict == <<>>

Put(d, k, v) == [x \in (DOMAIN d) \cup {k} |-> IF x = k THEN v ELSE d[x]]

Get(d, k, default) == IF k \in DOMAIN d THEN d[k] ELSE default

(***************************************************************************)
(* The question bank: QUESTIONS as load_questions returns it, every        *)
(* category with the three levels, a level without questions being [].     *)
(***************************************************************************)
Difficulties == {"easy", "medium", "hard"}

\* POINTS with the value of "easy" at every level
POINTS_Flat == [d \in Difficulties |-> 10]

POINTS == [d \in Difficulties |->
              IF d = "easy" THEN 10 ELSE IF d = "medium" THEN 25 ELSE 50]

Filler == <<"a0", "a1", "a2", "a3">>

QUESTIONS ==
    [c \in {"NBA"} |->
        [d \in Difficulties |->
            IF d = "easy"
                THEN << [q |-> "nba-easy-1", a |-> Filler, correct |-> 0] >>
                ELSE << >> ]]

CATEGORIES == <<"NBA">>

Range(s) == {s[i] : i \in DOMAIN s}

\* random.sample(CATEGORIES, 3): every sequence of 3 distinct categories
Sample3 ==
    {s \in [1..3 -> Range(CATEGORIES)] : \A i, j \in 1..3 : i # j => s[i] # s[j]}

(***************************************************************************)
(* Game state.                                                             *)
(***************************************************************************)
\* `players` is a dict whose iteration order the code reads (player_list,
\* end_game): it is kept as the sequence of its items in insertion order.
init_game ==
    [players |-> <<>>,
     order |-> <<>>,
     round |-> 0,
     current_picker |-> None,
     picker_counts |-> EmptyDict,
     category |-> None,
     category_options |-> <<>>,
     questions |-> EmptyDict,
     answers |-> EmptyDict,
     difficulties |-> EmptyDict,
     phase |-> "lobby"]

PlayerSids(g) == {g.players[i].sid : i \in DOMAIN g.players}

PlayerKeys(g) == [i \in DOMAIN g.players |-> g.players[i].sid]

PlayerOf(g, sid) == g.players[CHOOSE i \in DOMAIN g.players : g.players[i].sid = sid]

\* g["players"][sid] = rec: a new key goes last, an old key keeps its place
SetPlayer(ps, sid, rec) ==
    IF \E i \in DOMAIN ps : ps[i].sid = sid
        THEN [i \in DOMAIN ps |-> IF ps[i].sid = sid THEN rec ELSE ps[i]]
        ELSE Append(ps, rec)

ScoreOf(g, sid) == PlayerOf(g, sid).score

(***************************************************************************)
(* Notifications: emit(event, data, room=room) and emit(event, data,       *)
(* to=sid); an emit with neither goes to the caller.                       *)
(***************************************************************************)
\* emit(event, data) sent from outside a handler's context: to every client
ToRoom_Broadcast(room, event, data) ==
    [event |-> event, dest |-> "room", to |-> "*", data |-> data]

ToRoom(room, event, data) == [event |-> event, dest |-> "room", to |-> room, data |-> data]

ToSid(sid, event, data) == [event |-> event, dest |-> "sid", to |-> sid, data |-> data]

(***************************************************************************)
(* end_game and next_round.  Both are called from handlers; they are       *)
(* operators giving what the call does to a game state g: the new state,   *)
(* the notifications emitted and whether end_game ran.                     *)
(***************************************************************************)
Results(g) == [i \in DOMAIN g.players |->
                  [name |-> g.players[i].name, score |-> g.players[i].score]]

\* r placed behind every entry of the sorted list s whose key is not larger
InsertByKey(r, s) ==
    LET k == Cardinality({i \in DOMAIN s : -(s[i].score) <= -(r.score)})
    IN  SubSeq(s, 1, k) \o <<r>> \o SubSeq(s, k + 1, Len(s))

\* sorted(results, key=lambda r: -r["score"]): a stable sort
RECURSIVE SortedUpTo(_, _)
SortedUpTo(res, n) ==
    IF n = 0 THEN <<>> ELSE InsertByKey(res[n], SortedUpTo(res, n - 1))

sorted_res(results) == SortedUpTo(results, Len(results))

end_game(g, room) ==
    LET results == Results(g)
        srt == sorted_res(results)
        winner == IF srt # <<>> THEN srt[1].name ELSE "Ingen"
    IN  << ToRoom(room, "game_over", [results |-> results, winner |-> winner]) >>

\* Eligible with the comparison `<= 2`
Eligible_UpToTwo(g) == {i \in DOMAIN g.order : g.picker_counts[g.order[i]] <= 2}

\* the players of `order` who have not been picker twice, by position
Eligible(g) == {i \in DOMAIN g.order : g.picker_counts[g.order[i]] < 2}

FirstEligible(g) == CHOOSE i \in Eligible(g) : \A j \in Eligible(g) : i <= j

CategoryOptions == IF Len(CATEGORIES) >= 3 THEN Sample3 ELSE {CATEGORIES}

\* round_start without `g["answers"] = {}`
round_start_KeepsAnswers(g, room, sid, options) ==
    LET g2 == [g EXCEPT !.round = @ + 1,
                        !.current_picker = sid,
                        !.picker_counts = Put(@, sid, @[sid] + 1),
                        !.category = None,
                        !.category_options = options,
                        !.questions = EmptyDict,
                        !.difficulties = EmptyDict]
    IN  [g |-> g2,
         out |-> << ToRoom(room, "round_start",
                           [roundId |-> g2.round,
                            picker |-> PlayerOf(g2, sid).name,
                            pickerSid |-> sid,
                            categories |-> options]) >>,
         ended |-> FALSE]

\* round_start without `g["picker_counts"][sid] += 1`
round_start_NoCount(g, room, sid, options) ==
    LET g2 == [g EXCEPT !.round = @ + 1,
                        !.current_picker = sid,
                        !.category = None,
                        !.category_options = options,
                        !.answers = EmptyDict,
                        !.questions = EmptyDict,
                        !.difficulties = EmptyDict]
    IN  [g |-> g2,
         out |-> << ToRoom(room, "round_start",
                           [roundId |-> g2.round,
                            picker |-> PlayerOf(g2, sid).name,
                            pickerSid |-> sid,
                            categories |-> options]) >>,
         ended |-> FALSE]

round_start(g, room, sid, options) ==
    LET g2 == [g EXCEPT !.round = @ + 1,
                        !.current_picker = sid,
                        !.picker_counts = Put(@, sid, @[sid] + 1),
                        !.category = None,
                        !.category_options = options,
                        !.answers = EmptyDict,
                        !.questions = EmptyDict,
                        !.difficulties = EmptyDict]
    IN  [g |-> g2,
         out |-> << ToRoom(room, "round_start",
                           [roundId |-> g2.round,
                            picker |-> PlayerOf(g2, sid).name,
                            pickerSid |-> sid,
                            categories |-> options]) >>,
         ended |-> FALSE]

\* The outcomes of next_round(room) on g.
next_round(g, room) ==
    IF Eligible(g) = {}
        THEN {[g |-> g, out |-> end_game(g, room), ended |-> TRUE]}
    ELSE {round_start(g, room, g.order[FirstEligible(g)], options) :
              options \in CategoryOptions}

\* random.shuffle(list(g["players"].keys())): every permutation of the keys
Shuffles(keys) ==
    {p \in [DOMAIN keys -> Range(keys)] : \A i, j \in DOMAIN keys : i # j => p[i] # p[j]}

\* AllAnswered without the test `is not None`
AllAnswered_KeyOnly(g) ==
    \A psid \in PlayerSids(g) : psid \in DOMAIN g.answers

\* all(psid in answers and answers[psid] is not None for psid in players)
AllAnswered(g) ==
    \A psid \in PlayerSids(g) : psid \in DOMAIN g.answers /\ g.answers[psid] # NoAnswer

(***************************************************************************)
(* The handlers: the outcomes of one call.                                 *)
(***************************************************************************)
Outcome(newRooms, emitted, sleeps, ended, raised) ==
    [rooms |-> newRooms, out |-> emitted, sleeps |-> sleeps, ended |-> ended,
     raised |-> raised]

\* a handler that returns before it changed or emitted anything
Return == Outcome(rooms, <<>>, FALSE, FALSE, FALSE)

\* create_room, called by sid, uuid4 giving the identifier room
create_room(sid, room) ==
    { Outcome(Put(rooms, room, init_game),
              << ToSid(sid, "room_created", [room |-> room]) >>,
              FALSE, FALSE, FALSE) }

\* join creating the room that is not in the registry
join_Autocreate(room, sid, name) ==
    LET g == IF room \in DOMAIN rooms THEN rooms[room] ELSE init_game
        g2 == [g EXCEPT
                 !.players = SetPlayer(@, sid, [sid |-> sid, name |-> name, score |-> 0]),
                 !.picker_counts = Put(@, sid, 0)]
    IN  { Outcome(Put(rooms, room, g2),
                  << ToSid(sid, "joined", [room |-> room, sid |-> sid]),
                     ToRoom(room, "player_list",
                            [players |-> [i \in DOMAIN g2.players |-> g2.players[i].name]]) >>,
                  FALSE, FALSE, FALSE) }

join(room, sid, name) ==
    IF room \notin DOMAIN rooms
        THEN { Outcome(rooms, << ToSid(sid, "joined", [error |-> "Room not found"]) >>,
                       FALSE, FALSE, FALSE) }
        ELSE LET g == rooms[room]
                 g2 == [g EXCEPT
                          !.players = SetPlayer(@, sid, [sid |-> sid, name |-> name, score |-> 0]),
                          !.picker_counts = Put(@, sid, 0)]
             IN  { Outcome([rooms EXCEPT ![room] = g2],
                           << ToSid(sid, "joined", [room |-> room, sid |-> sid]),
                              ToRoom(room, "player_list",
                                     [players |-> [i \in DOMAIN g2.players |-> g2.players[i].name]]) >>,
                           FALSE, FALSE, FALSE) }

start_game(room) ==
    IF room \notin DOMAIN rooms
        THEN { Return }
        ELSE { Outcome([rooms EXCEPT ![room] = res.g], res.out, FALSE, res.ended, FALSE) :
                 res \in UNION { next_round([rooms[room] EXCEPT !.order = shuffled], room) :
                                   shuffled \in Shuffles(PlayerKeys(rooms[room])) } }

\* choose without the test of the caller against current_picker
choose_AnyCaller(room, sid, cat) ==
    IF room \notin DOMAIN rooms
        THEN { Return }
    ELSE IF cat \notin Range(rooms[room].category_options)
        THEN { Return }
    ELSE IF cat \notin DOMAIN QUESTIONS
        THEN { Return }
    ELSE { Outcome([rooms EXCEPT ![room].category = cat],
                   << ToRoom(room, "category_chosen",
                             [category |-> cat, roundId |-> rooms[room].round]) >>,
                   FALSE, FALSE, FALSE) }

choose(room, sid, cat) ==
    IF room \notin DOMAIN rooms
        THEN { Return }
    ELSE IF sid # rooms[room].current_picker
        THEN { Return }
    ELSE IF cat \notin Range(rooms[room].category_options)
        THEN { Return }
    ELSE IF cat \notin DOMAIN QUESTIONS
        THEN { Return }
    ELSE { Outcome([rooms EXCEPT ![room].category = cat],
                   << ToRoom(room, "category_chosen",
                             [category |-> cat, roundId |-> rooms[room].round]) >>,
                   FALSE, FALSE, FALSE) }

Placeholder == "No questions available for this category/difficulty."

\* pick_diff emitting the question with room=room instead of to=sid
pick_diff_ToRoom(room, sid, difficulty) ==
    IF room \notin DOMAIN rooms
        THEN { Return }
    ELSE IF rooms[room].category = None
        THEN { Return }
    ELSE IF difficulty \notin {"easy", "medium", "hard"}
        THEN { Return }
    ELSE LET g == [rooms[room] EXCEPT !.difficulties = Put(@, sid, difficulty)]
             pool == Get(QUESTIONS[g.category], difficulty, <<>>)
         IN  IF pool = <<>>
               THEN { Outcome([rooms EXCEPT ![room] = g],
                              << ToSid(sid, "question",
                                       [question |-> Placeholder,
                                        answers |-> <<"OK", "OK", "OK", "OK">>,
                                        roundId |-> g.round]) >>,
                              FALSE, FALSE, FALSE) }
               ELSE { Outcome([rooms EXCEPT ![room] =
                                 [g EXCEPT !.questions = Put(@, sid, q),
                                           !.answers = Put(@, sid, NoAnswer)]],
                              << ToRoom(room, "question",
                                        [question |-> q.q, answers |-> q.a,
                                         roundId |-> g.round]) >>,
                              FALSE, FALSE, FALSE) : q \in Range(pool) }

pick_diff(room, sid, difficulty) ==
    IF room \notin DOMAIN rooms
        THEN { Return }
    ELSE IF rooms[room].category = None
        THEN { Return }
    ELSE IF difficulty \notin {"easy", "medium", "hard"}
        THEN { Return }
    ELSE LET g == [rooms[room] EXCEPT !.difficulties = Put(@, sid, difficulty)]
             pool == Get(QUESTIONS[g.category], difficulty, <<>>)
         IN  IF pool = <<>>
               THEN { Outcome([rooms EXCEPT ![room] = g],
                              << ToSid(sid, "question",
                                       [question |-> Placeholder,
                                        answers |-> <<"OK", "OK", "OK", "OK">>,
                                        roundId |-> g.round]) >>,
                              FALSE, FALSE, FALSE) }
               ELSE { Outcome([rooms EXCEPT ![room] =
                                 [g EXCEPT !.questions = Put(@, sid, q),
                                           !.answers = Put(@, sid, NoAnswer)]],
                              << ToSid(sid, "question",
                                       [question |-> q.q, answers |-> q.a,
                                        roundId |-> g.round]) >>,
                              FALSE, FALSE, FALSE) : q \in Range(pool) }

\* submit_answer up to socketio.sleep(1).  A caller that is no player of the
\* room and answers correctly ends the handler with the KeyError of
\* g["players"][sid], its answer recorded and nothing emitted.
receive_answer(room, sid, answer) ==
    IF room \notin DOMAIN rooms
        THEN { Return }
    ELSE IF sid \notin DOMAIN rooms[room].questions
        THEN { Return }
    ELSE LET g == rooms[room]
             q == g.questions[sid]
             correct_index == q.correct
             correct == (answer = <<correct_index>>)
             g1 == [g EXCEPT !.answers = Put(@, sid, answer)]
             difficulty == Get(g.difficulties, sid, None)
             scores == correct /\ difficulty \in DOMAIN POINTS
             g2 == IF scores
                     THEN [g1 EXCEPT !.players =
                             SetPlayer(@, sid, [PlayerOf(g, sid) EXCEPT
                                                  !.score = @ + POINTS[difficulty]])]
                     ELSE g1
             feedback == ToSid(sid, "answer_feedback",
                               [correct |-> correct, correctIndex |-> correct_index])
         IN  IF scores /\ sid \notin PlayerSids(g)
               THEN { Outcome([rooms EXCEPT ![room] = g1], <<>>, FALSE, FALSE, FALSE) }
             ELSE IF AllAnswered(g2)
               THEN { Outcome([rooms EXCEPT ![room] = g2],
                              << feedback, ToRoom(room, "round_end", <<>>) >>,
                              TRUE, FALSE, scores) }
             ELSE { Outcome([rooms EXCEPT ![room] = g2], << feedback >>,
                            FALSE, FALSE, scores) }

\* submit_answer after socketio.sleep(1): next_round(room)
wake_up(room) ==
    { Outcome([rooms EXCEPT ![room] = res.g], res.out, FALSE, res.ended, FALSE) :
        res \in next_round(rooms[room], room) }

(***************************************************************************)
(* The actions: one call of a handler.  `over` and `scored` are history    *)
(* variables, which no handler reads.                                      *)
(***************************************************************************)
\* the histories after a call about room with outcome res; a round start
\* (round changed) opens the round's record of who scored
History(room, sid, res) ==
    IF room \notin DOMAIN rooms
        THEN UNCHANGED <<over, scored>>
    ELSE /\ over' = [over EXCEPT ![room] = @ \/ res.ended]
         /\ scored' = [scored EXCEPT ![room] =
                          IF res.rooms[room].round # rooms[room].round THEN {}
                          ELSE IF res.raised THEN @ \cup {sid}
                          ELSE @]

\* uuid4 gives an identifier that no room has yet
on_create_room(sid, room) ==
    /\ room \notin DOMAIN rooms
    /\ \E res \in create_room(sid, room) :
        /\ rooms' = res.rooms
        /\ pending' = Put(pending, room, 0)
        /\ over' = Put(over, room, FALSE)
        /\ scored' = Put(scored, room, {})

on_join_room(room, sid, name) ==
    \E res \in join(room, sid, name) :
        /\ rooms' = res.rooms
        /\ UNCHANGED pending
        /\ History(room, sid, res)

on_start_game(room, sid) ==
    \E res \in start_game(room) :
        /\ rooms' = res.rooms
        /\ UNCHANGED pending
        /\ History(room, sid, res)

on_choose_category(room, sid, cat) ==
    \E res \in choose(room, sid, cat) :
        /\ rooms' = res.rooms
        /\ UNCHANGED pending
        /\ History(room, sid, res)

on_choose_difficulty(room, sid, difficulty) ==
    \E res \in pick_diff(room, sid, difficulty) :
        /\ rooms' = res.rooms
        /\ UNCHANGED pending
        /\ History(room, sid, res)

on_submit_answer(room, sid, answer) ==
    \E res \in receive_answer(room, sid, answer) :
        /\ rooms' = res.rooms
        /\ pending' = IF res.sleeps THEN [pending EXCEPT ![room] = @ + 1] ELSE pending
        /\ History(room, sid, res)

after_sleep(room) ==
    /\ room \in DOMAIN pending
    /\ pending[room] > 0
    /\ \E res \in wake_up(room) :
        /\ rooms' = res.rooms
        /\ pending' = [pending EXCEPT ![room] = @ - 1]
        /\ History(room, None, res)

(***************************************************************************)
(* The specifications: no room at first; the connected clients send any    *)
(* event, with any payload of the sets below.  A step that would exceed a  *)
(* bound is not taken.                                                     *)
(***************************************************************************)
RoomIds == {"R1"}
Names == [sid \in {"A", "B", "C"} |->
             IF sid = "A" THEN {"ann"} ELSE IF sid = "B" THEN {"bob"} ELSE {"cat"}]
CategoryInputs == {"NBA", "XXX"}
DifficultyInputs == {"easy", "hard", "extreme"}
AnswerInputs == {NoAnswer, <<0>>, <<1>>}

Init ==
    /\ rooms = <<>>
    /\ pending = <<>>
    /\ over = <<>>
    /\ scored = <<>>

\* b = <<most rounds, highest score, most sleeping handlers of a room>>
Bounded(b) ==
    \A room \in DOMAIN rooms :
        /\ rooms[room].round <= b[1]
        /\ \A i \in DOMAIN rooms[room].players : rooms[room].players[i].score <= b[2]
        /\ pending[room] <= b[3]

\* one step of the clients of S on the rooms of R, who choose difficulties of
\* D and answers of A
Step(R, S, D, A, b) ==
    \/ \E sid \in S, room \in R : on_create_room(sid, room) /\ Bounded(b)'
    \/ \E sid \in S, room \in R : \E name \in Names[sid] :
          on_join_room(room, sid, name) /\ Bounded(b)'
    \/ \E sid \in S, room \in R : on_start_game(room, sid) /\ Bounded(b)'
    \/ \E sid \in S, room \in R, cat \in CategoryInputs :
          on_choose_category(room, sid, cat) /\ Bounded(b)'
    \/ \E sid \in S, room \in R, d \in D :
          on_choose_difficulty(room, sid, d) /\ Bounded(b)'
    \/ \E sid \in S, room \in R, a \in A :
          on_submit_answer(room, sid, a) /\ Bounded(b)'
    \/ \E room \in R : after_sleep(room) /\ Bounded(b)'

\* Two clients.
Sids == {"A", "B"}
MaxRound == 2
MaxScore == 10
MaxPending == 1

Next == Step(RoomIds, Sids, DifficultyInputs, AnswerInputs, <<MaxRound, MaxScore, MaxPending>>)

Spec == Init /\ [][Next]_vars

\* One client, a longer game.
SoloSids == {"A"}
SoloMaxRound == 3
SoloMaxScore == 20
SoloMaxPending == 2

NextSolo ==
    Step(RoomIds, SoloSids, DifficultyInputs, AnswerInputs,
         <<SoloMaxRound, SoloMaxScore, SoloMaxPending>>)

SpecSolo == Init /\ [][NextSolo]_vars

\* Three clients, who choose "easy" and answer 1, in the first rounds of a game.
TrioSids == {"A", "B", "C"}
TrioMaxRound == 2
TrioMaxScore == 0
TrioMaxPending == 1

NextTrio ==
    Step(RoomIds, TrioSids, {"easy"}, {<<1>>},
         <<TrioMaxRound, TrioMaxScore, TrioMaxPending>>)

SpecTrio == Init /\ [][NextTrio]_vars

\* Two clients in the first rounds of a game, who choose any level of the
\* bank and answer 0 or 1; an answer that would score is not submitted.
PairSids == {"A", "B"}
PairMaxRound == 2
PairMaxScore == 0
PairMaxPending == 1

NextPair ==
    Step(RoomIds, PairSids, Difficulties, {<<0>>, <<1>>},
         <<PairMaxRound, PairMaxScore, PairMaxPending>>)

SpecPair == Init /\ [][NextPair]_vars

\* One client with two rooms, in the first rounds of each game.
TwoRooms == {"R1", "R2"}
RoomsSids == {"A"}
RoomsMaxRound == 2
RoomsMaxScore == 10
RoomsMaxPending == 1

NextRooms ==
    Step(TwoRooms, RoomsSids, {"easy"}, {<<0>>, <<1>>},
         <<RoomsMaxRound, RoomsMaxScore, RoomsMaxPending>>)

SpecRooms == Init /\ [][NextRooms]_vars

\* Clients that keep to the lifecycle: they join in the lobby and start the
\* game once, with a player in the room; in a round the picker chooses one of
\* the offered categories, once, and every player declares one valid level
\* and then submits one answer.  A scheduled round transition runs when its
\* sleep ends, and a client whose step is possible takes it in the end.
LiveSids == {"A", "B"}
LiveMaxRound == 4
LiveMaxScore == 40
LiveMaxPending == 1

LiveBounds == <<LiveMaxRound, LiveMaxScore, LiveMaxPending>>

InLobby(room) == room \in DOMAIN rooms /\ rooms[room].round = 0 /\ ~over[room]

PickerChooses(room) ==
    /\ room \in DOMAIN rooms
    /\ rooms[room].category = None
    /\ \E cat \in Range(rooms[room].category_options) :
          on_choose_category(room, rooms[room].current_picker, cat)

ChoosesDifficulty(room, sid) ==
    /\ room \in DOMAIN rooms
    /\ sid \in PlayerSids(rooms[room])
    /\ sid \notin DOMAIN rooms[room].difficulties
    /\ \E d \in Difficulties : on_choose_difficulty(room, sid, d)

Submits(room, sid) ==
    /\ room \in DOMAIN rooms
    /\ sid \in PlayerSids(rooms[room])
    /\ sid \in DOMAIN rooms[room].difficulties
    /\ Get(rooms[room].answers, sid, NoAnswer) = NoAnswer
    /\ \E a \in {<<0>>, <<1>>} : on_submit_answer(room, sid, a)

NextLive ==
    \/ \E sid \in LiveSids, room \in RoomIds :
          on_create_room(sid, room) /\ Bounded(LiveBounds)'
    \/ \E sid \in LiveSids, room \in RoomIds : \E name \in Names[sid] :
          InLobby(room) /\ on_join_room(room, sid, name) /\ Bounded(LiveBounds)'
    \/ \E sid \in LiveSids, room \in RoomIds :
          /\ InLobby(room) /\ rooms[room].players # <<>>
          /\ on_start_game(room, sid) /\ Bounded(LiveBounds)'
    \/ \E room \in RoomIds : PickerChooses(room) /\ Bounded(LiveBounds)'
    \/ \E sid \in LiveSids, room \in RoomIds :
          ChoosesDifficulty(room, sid) /\ Bounded(LiveBounds)'
    \/ \E sid \in LiveSids, room \in RoomIds :
          Submits(room, sid) /\ Bounded(LiveBounds)'
    \/ \E room \in RoomIds : after_sleep(room) /\ Bounded(LiveBounds)'

FairLive ==
    \A room \in RoomIds :
        /\ WF_vars(after_sleep(room) /\ Bounded(LiveBounds)')
        /\ WF_vars(PickerChooses(room) /\ Bounded(LiveBounds)')
        /\ \A sid \in LiveSids :
              /\ WF_vars(ChoosesDifficulty(room, sid) /\ Bounded(LiveBounds)')
              /\ WF_vars(Submits(room, sid) /\ Bounded(LiveBounds)')

SpecLive == Init /\ [][NextLive]_vars /\ FairLive

(***************************************************************************)
(* Vocabulary of the claims.                                               *)
(***************************************************************************)
HasEvent(emitted, event) == \E i \in DOMAIN emitted : emitted[i].event = event

AllSids == {"A", "B", "C"}

Registered(room) == room \in DOMAIN rooms /\ room \in DOMAIN rooms'

\* the room's game has been started: a round has begun or end_game has run
Started(room) == rooms[room].round >= 1 \/ over[room]

\* every joined player has a recorded answer in the game state g
EveryPlayerHasAnswer(g) ==
    \A i \in DOMAIN g.players :
        /\ g.players[i].sid \in DOMAIN g.answers
        /\ g.answers[g.players[i].sid] \in {<<0>>, <<1>>, <<2>>, <<3>>}

IsStart(room) == \E sid \in AllSids : on_start_game(room, sid)

IsJoin(room) == \E sid \in AllSids : \E name \in Names[sid] : on_join_room(room, sid, name)

IsChoose(room) ==
    \E sid \in AllSids, cat \in CategoryInputs : on_choose_category(room, sid, cat)

IsPick(room) ==
    \E sid \in AllSids, d \in DifficultyInputs : on_choose_difficulty(room, sid, d)

IsSubmit(room) ==
    \E sid \in AllSids, a \in AnswerInputs : on_submit_answer(room, sid, a)

(***************************************************************************)
(* C1.  A game started with N >= 1 players has started exactly 2 * N       *)
(* rounds when it comes to game over: at the step in which end_game first  *)
(* runs, `round` is twice the length of the turn order.                    *)
(***************************************************************************)
C1_RoundsAtGameOver ==
    [][\A room \in RoomIds :
          (/\ Registered(room)
           /\ ~over[room] /\ over'[room]
           /\ Len(rooms'[room].order) >= 1)
          => rooms'[room].round = 2 * Len(rooms'[room].order)]_vars

(***************************************************************************)
(* C2.  With the three players in the turn order B, A, C the round         *)
(* transition that ends round k < 6 makes the k+1st of B, A, C, B, A, C    *)
(* the picker of round k + 1, and the one that ends round 6 is game over.  *)
(***************************************************************************)
BAC == <<"B", "A", "C", "B", "A", "C">>

C2_RoundRobin ==
    [][\A room \in RoomIds :
          (/\ Registered(room)
           /\ after_sleep(room)
           /\ rooms[room].order = <<"B", "A", "C">>
           /\ rooms[room].round \in 1..6
           /\ rooms[room].current_picker = BAC[rooms[room].round])
          => IF rooms[room].round < 6
               THEN /\ rooms'[room].round = rooms[room].round + 1
                    /\ rooms'[room].current_picker = BAC[rooms[room].round + 1]
               ELSE over'[room] /\ rooms'[room].round = 6]_vars

(***************************************************************************)
(* C3.  round_end is emitted, and the round transition that follows it is  *)
(* scheduled, if and only if every joined player has a recorded answer for *)
(* the round: a submit_answer emits round_end only when its recording      *)
(* leaves every joined player with an answer, a submit_answer accepted     *)
(* from a player of the room emits it whenever its recording does so, the  *)
(* handler goes to sleep before next_round exactly when it emitted         *)
(* round_end, no other handler emits round_end, and in a round in which    *)
(* every joined player has an answer a transition is scheduled (or the     *)
(* game is over).                                                          *)
(***************************************************************************)
C3_SubmitEmitsRoundEnd(room, sid, answer) ==
    \A res \in receive_answer(room, sid, answer) :
        LET emitted == HasEvent(res.out, "round_end")
            complete == room \in DOMAIN rooms /\ EveryPlayerHasAnswer(res.rooms[room])
            accepted == /\ room \in DOMAIN rooms
                        /\ sid \in DOMAIN rooms[room].questions
                        /\ sid \in PlayerSids(rooms[room])
        IN  /\ emitted => complete
            /\ accepted /\ complete => emitted
            /\ res.sleeps <=> emitted

C3_OthersEmitNoRoundEnd(room, sid) ==
    /\ \A name \in Names[sid] : \A res \in join(room, sid, name) :
          ~HasEvent(res.out, "round_end")
    /\ \A res \in start_game(room) : ~HasEvent(res.out, "round_end")
    /\ \A cat \in CategoryInputs : \A res \in choose(room, sid, cat) :
          ~HasEvent(res.out, "round_end")
    /\ \A d \in DifficultyInputs : \A res \in pick_diff(room, sid, d) :
          ~HasEvent(res.out, "round_end")
    /\ room \in DOMAIN rooms =>
          \A res \in wake_up(room) : ~HasEvent(res.out, "round_end")

C3_RoundEndIffAllAnswered ==
    \A room \in RoomIds :
        /\ \A sid \in AllSids :
              /\ \A answer \in AnswerInputs : C3_SubmitEmitsRoundEnd(room, sid, answer)
              /\ C3_OthersEmitNoRoundEnd(room, sid)
        /\ (/\ room \in DOMAIN rooms
            /\ rooms[room].round >= 1
            /\ EveryPlayerHasAnswer(rooms[room]))
           => pending[room] >= 1 \/ over[room]

\* both players of a two-player round have answered and the transition is scheduled
C3_Witness ==
    \E room \in DOMAIN rooms :
        /\ Len(rooms[room].players) = 2
        /\ rooms[room].round >= 1
        /\ EveryPlayerHasAnswer(rooms[room])
        /\ pending[room] = 1
        /\ ~over[room]

(***************************************************************************)
(* C4.  Within one round a player's score rises at most once: no step      *)
(* raises the score of a player whose score has risen before in the same   *)
(* round.                                                                  *)
(***************************************************************************)
C4_ScoresOncePerRound ==
    [][\A room \in RoomIds :
          Registered(room) /\ rooms'[room].round = rooms[room].round
          => \A sid \in PlayerSids(rooms[room]) \cap PlayerSids(rooms'[room]) :
                ScoreOf(rooms'[room], sid) > ScoreOf(rooms[room], sid)
                => sid \notin scored[room]]_vars

(***************************************************************************)
(* C5.  A completed round causes exactly one round_end and exactly one     *)
(* round transition: round_end is not emitted, and no further transition   *)
(* is scheduled, while the transition of a completed round is still to     *)
(* run, so that no room ever has two transitions scheduled.                *)
(***************************************************************************)
C5_OneTransitionPerRound ==
    \A room \in DOMAIN rooms : pending[room] <= 1

(***************************************************************************)
(* C6.  Game over is terminal: once end_game has run for a room, every     *)
(* player of its turn order having been picker twice, a chooseCategory,    *)
(* chooseDifficulty, submitAnswer or start on the room changes nothing and *)
(* schedules no transition.                                                *)
(***************************************************************************)
C6_GameOverIsTerminal ==
    [][\A room \in RoomIds :
          (/\ Registered(room)
           /\ over[room]
           /\ rooms[room].order # <<>> /\ Eligible(rooms[room]) = {}
           /\ IsChoose(room) \/ IsPick(room) \/ IsSubmit(room) \/ IsStart(room))
          => UNCHANGED <<rooms, pending>>]_vars

(***************************************************************************)
(* C7.  The turn order is established once: a start on a room whose game   *)
(* has been started changes no state, and `order` does not change after    *)
(* the first start.                                                        *)
(***************************************************************************)
C7_StartOnlyOnce ==
    [][\A room \in RoomIds :
          Registered(room) /\ Started(room)
          => /\ rooms'[room].order = rooms[room].order
             /\ IsStart(room) => UNCHANGED <<rooms, pending>>]_vars

(***************************************************************************)
(* C8.  A join on a room whose game has been started (a round has begun)   *)
(* leaves the roster, every score and every picker count as they were.     *)
(***************************************************************************)
C8_JoinOnlyInLobby ==
    [][\A room \in RoomIds :
          Registered(room) /\ rooms[room].round >= 1 /\ IsJoin(room)
          => /\ rooms'[room].players = rooms[room].players
             /\ rooms'[room].picker_counts = rooms[room].picker_counts]_vars

(***************************************************************************)
(* C9.  A chooseDifficulty whose pool is empty stores a question under the *)
(* caller's identity and sets the caller's answer slot to 'not yet         *)
(* answered', so that the caller's submitAnswer is accepted afterwards.    *)
(***************************************************************************)
C9_PlaceholderIsStored ==
    [][\A room \in RoomIds : \A sid \in AllSids : \A d \in Difficulties :
          (/\ Registered(room)
           /\ rooms[room].category # None
           /\ QUESTIONS[rooms[room].category][d] = <<>>
           /\ on_choose_difficulty(room, sid, d))
          => /\ sid \in DOMAIN rooms'[room].questions
             /\ sid \in DOMAIN rooms'[room].answers
             /\ rooms'[room].answers[sid] = NoAnswer
             /\ \A a \in AnswerInputs : \A res \in receive_answer(room, sid, a)' :
                   HasEvent(res.out, "answer_feedback")]_vars

(***************************************************************************)
(* C10.  A recorded answer is not overwritten within its round: no step    *)
(* that leaves the round as it is changes or clears it.                    *)
(***************************************************************************)
C10_AnswerSetOnce ==
    [][\A room \in RoomIds :
          Registered(room) /\ rooms'[room].round = rooms[room].round
          => \A sid \in DOMAIN rooms[room].answers :
                rooms[room].answers[sid] # NoAnswer
                => /\ sid \in DOMAIN rooms'[room].answers
                   /\ rooms'[room].answers[sid] = rooms[room].answers[sid]]_vars

(***************************************************************************)
(* C11.  The game_over notification carries the results as a ranking       *)
(* sorted by descending score, and the winner it names is a player with    *)
(* the maximum score: this holds of every game_over that a start or a      *)
(* scheduled round transition emits.                                       *)
(***************************************************************************)
Ranked(results) ==
    \A k \in 1..(Len(results) - 1) : results[k].score >= results[k + 1].score

WinnerIsTop(results, winner) ==
    results # <<>> =>
        \E k \in DOMAIN results :
            /\ results[k].name = winner
            /\ \A j \in DOMAIN results : results[k].score >= results[j].score

GameOverRanked(emitted) ==
    \A i \in DOMAIN emitted :
        emitted[i].event = "game_over"
        => /\ Ranked(emitted[i].data.results)
           /\ WinnerIsTop(emitted[i].data.results, emitted[i].data.winner)

C11_GameOverIsRanking ==
    \A room \in DOMAIN rooms :
        /\ \A res \in start_game(room) : GameOverRanked(res.out)
        /\ pending[room] > 0 => \A res \in wake_up(room) : GameOverRanked(res.out)

(***************************************************************************)
(* C12.  A chooseCategory from any identity other than the current picker  *)
(* never changes `category` and emits no category_chosen: in every         *)
(* reachable state, whatever the category it names, the call changes no    *)
(* state and emits nothing.                                                *)
(***************************************************************************)
C12_NonPickerChooseIsNoOp ==
    \A room \in DOMAIN rooms : \A sid \in AllSids : \A cat \in CategoryInputs :
        sid # rooms[room].current_picker
        => \A res \in choose(room, sid, cat) :
              /\ res.rooms[room].category = rooms[room].category
              /\ res.rooms = rooms
              /\ ~HasEvent(res.out, "category_chosen")
              /\ ~res.sleeps

\* a round in which the picker has not chosen yet, the offered category is in
\* the bank, and another joined player could send chooseCategory
C12_Witness ==
    \E room \in DOMAIN rooms : \E sid \in PlayerSids(rooms[room]) :
        /\ rooms[room].round >= 1
        /\ rooms[room].current_picker \in PlayerSids(rooms[room])
        /\ sid # rooms[room].current_picker
        /\ rooms[room].category = None
        /\ \E cat \in CategoryInputs :
              cat \in Range(rooms[room].category_options) /\ cat \in DOMAIN QUESTIONS

(***************************************************************************)
(* C13.  Every question notification is addressed privately to exactly the *)
(* player whose chooseDifficulty produced it: a chooseDifficulty emits its *)
(* question to the caller's identity and to no room, and no other handler  *)
(* emits a question.                                                       *)
(***************************************************************************)
QuestionsOnlyTo(emitted, sid) ==
    \A i \in DOMAIN emitted :
        emitted[i].event = "question"
        => emitted[i].dest = "sid" /\ emitted[i].to = sid

NoQuestion(emitted) == ~HasEvent(emitted, "question")

C13_QuestionIsPrivate ==
    \A room \in DOMAIN rooms : \A sid \in AllSids :
        /\ \A d \in DifficultyInputs : \A res \in pick_diff(room, sid, d) :
              QuestionsOnlyTo(res.out, sid)
        /\ \A name \in Names[sid] : \A res \in join(room, sid, name) : NoQuestion(res.out)
        /\ \A res \in start_game(room) : NoQuestion(res.out)
        /\ \A cat \in CategoryInputs : \A res \in choose(room, sid, cat) :
              NoQuestion(res.out)
        /\ \A a \in AnswerInputs : \A res \in receive_answer(room, sid, a) :
              NoQuestion(res.out)
        /\ \A res \in wake_up(room) : NoQuestion(res.out)

\* one player holds a question of the bank while another player of the room
\* has none yet
C13_Witness ==
    \E room \in DOMAIN rooms : \E sid, other \in PlayerSids(rooms[room]) :
        /\ sid # other
        /\ sid \in DOMAIN rooms[room].questions
        /\ other \notin DOMAIN rooms[room].questions
        /\ rooms[room].category # None

(***************************************************************************)
(* C15.  An accepted first submitAnswer of a player changes the player's   *)
(* score by exactly the point value of the difficulty the player declared  *)
(* (easy 10, medium 25, hard 50) when the answer equals the question's     *)
(* correct index and by 0 otherwise, and it changes the score of no other  *)
(* player.                                                                 *)
(***************************************************************************)
PointValue(difficulty) ==
    IF difficulty = "easy" THEN 10
    ELSE IF difficulty = "medium" THEN 25
    ELSE IF difficulty = "hard" THEN 50
    ELSE 0

\* sid is a player of g who holds a question and has not answered it
AwaitsFirstAnswer(g, sid) ==
    /\ sid \in PlayerSids(g)
    /\ sid \in DOMAIN g.questions
    /\ sid \in DOMAIN g.answers
    /\ g.answers[sid] = NoAnswer

C15_ScoreByDifficulty ==
    \A room \in DOMAIN rooms : \A sid \in AllSids : \A a \in AnswerInputs :
        AwaitsFirstAnswer(rooms[room], sid)
        => \A res \in receive_answer(room, sid, a) :
              LET g == rooms[room]
                  g2 == res.rooms[room]
              IN  /\ HasEvent(res.out, "answer_feedback")
                  /\ sid \in DOMAIN g.difficulties
                  /\ PlayerKeys(g2) = PlayerKeys(g)
                  /\ ScoreOf(g2, sid) - ScoreOf(g, sid) =
                        IF a = <<g.questions[sid].correct>>
                            THEN PointValue(g.difficulties[sid])
                            ELSE 0
                  /\ \A other \in PlayerSids(g) \ {sid} :
                        ScoreOf(g2, other) = ScoreOf(g, other)

\* a player's first answer, not the correct index, has been accepted and has
\* left the scores as they were, while the other player holds a question
\* under the declaration "medium" or "hard" and has not answered
C15_Witness ==
    \E room \in DOMAIN rooms : \E sid, other \in PlayerSids(rooms[room]) :
        /\ sid # other
        /\ sid \in DOMAIN rooms[room].answers
        /\ rooms[room].answers[sid] = <<1>>
        /\ rooms[room].questions[sid].correct = 0
        /\ ScoreOf(rooms[room], sid) = 0
        /\ ScoreOf(rooms[room], other) = 0
        /\ AwaitsFirstAnswer(rooms[room], other)
        /\ rooms[room].difficulties[other] \in {"medium", "hard"}

(***************************************************************************)
(* C14.  In every reachable state each player's picker count is in the     *)
(* range 0..2, and every player of the room has a picker count.            *)
(***************************************************************************)
C14_PickerCountInRange ==
    \A room \in DOMAIN rooms :
        /\ DOMAIN rooms[room].picker_counts = PlayerSids(rooms[room])
        /\ \A sid \in DOMAIN rooms[room].picker_counts :
              rooms[room].picker_counts[sid] \in 0..2

\* a player has been picker twice, round 2 has been answered, and its round
\* transition has run: finding no eligible player, it ended the game without
\* counting a third turn
C14_Witness ==
    \E room \in DOMAIN rooms : \E sid \in PlayerSids(rooms[room]) :
        /\ rooms[room].picker_counts[sid] = 2
        /\ rooms[room].round = 2
        /\ EveryPlayerHasAnswer(rooms[room])
        /\ pending[room] = 0
        /\ over[room]

(***************************************************************************)
(* C16.  For a room identifier that is not in the registry, start,         *)
(* chooseCategory, chooseDifficulty and submitAnswer change the state of   *)
(* no room and emit nothing, and join changes the state of no room and     *)
(* emits only the private 'Room not found' error to the caller.            *)
(***************************************************************************)
Silent(res) == res.rooms = rooms /\ res.out = <<>> /\ ~res.sleeps /\ ~res.ended

OnlyNotFound(res, sid) ==
    /\ res.rooms = rooms
    /\ ~res.sleeps /\ ~res.ended
    /\ Len(res.out) = 1
    /\ res.out[1].event = "joined"
    /\ res.out[1].dest = "sid" /\ res.out[1].to = sid
    /\ res.out[1].data = [error |-> "Room not found"]

C16_UnknownRoomIsNoOp ==
    \A room \in TwoRooms \ DOMAIN rooms : \A sid \in AllSids :
        /\ \A res \in start_game(room) : Silent(res)
        /\ \A cat \in CategoryInputs : \A res \in choose(room, sid, cat) : Silent(res)
        /\ \A d \in DifficultyInputs : \A res \in pick_diff(room, sid, d) : Silent(res)
        /\ \A a \in AnswerInputs : \A res \in receive_answer(room, sid, a) : Silent(res)
        /\ \A name \in Names[sid] : \A res \in join(room, sid, name) :
              OnlyNotFound(res, sid)

\* one room is in the registry, its game in a round with a question out, and
\* the other identifier is not in the registry
C16_Witness ==
    \E room \in DOMAIN rooms : \E ghost \in TwoRooms \ DOMAIN rooms :
        /\ rooms[room].round >= 1
        /\ rooms[room].questions # EmptyDict

(***************************************************************************)
(* C17.  Rooms are independent: a join, start, chooseCategory,             *)
(* chooseDifficulty or submitAnswer addressed to a room, and the round     *)
(* transition or game over it triggers, leaves the state of every other    *)
(* room unchanged, adds no room to and removes none from the registry,     *)
(* and sends its notifications to that room or to the caller only.         *)
(***************************************************************************)
Framed(res, room, sid) ==
    /\ DOMAIN res.rooms = DOMAIN rooms
    /\ \A other \in DOMAIN rooms \ {room} : res.rooms[other] = rooms[other]
    /\ \A i \in DOMAIN res.out :
          \/ res.out[i].dest = "room" /\ res.out[i].to = room
          \/ res.out[i].dest = "sid" /\ res.out[i].to = sid

C17_RoomsAreIndependent ==
    \A room \in TwoRooms : \A sid \in AllSids :
        /\ \A name \in Names[sid] : \A res \in join(room, sid, name) :
              Framed(res, room, sid)
        /\ \A res \in start_game(room) : Framed(res, room, sid)
        /\ \A cat \in CategoryInputs : \A res \in choose(room, sid, cat) :
              Framed(res, room, sid)
        /\ \A d \in DifficultyInputs : \A res \in pick_diff(room, sid, d) :
              Framed(res, room, sid)
        /\ \A a \in AnswerInputs : \A res \in receive_answer(room, sid, a) :
              Framed(res, room, sid)
        /\ room \in DOMAIN rooms => \A res \in wake_up(room) : Framed(res, room, sid)

\* the same client plays in both rooms: one game is in a round with the
\* client's answer recorded and its transition scheduled, the other has not
\* been started
C17_Witness ==
    \E room, other \in DOMAIN rooms :
        /\ room # other
        /\ PlayerSids(rooms[room]) \cap PlayerSids(rooms[other]) # {}
        /\ rooms[room].round >= 1
        /\ EveryPlayerHasAnswer(rooms[room])
        /\ pending[room] = 1
        /\ rooms[other].round = 0
        /\ pending[other] = 0

(***************************************************************************)
(* C18.  Every step that starts a new round leaves `category` none and the *)
(* per-player question, answer and difficulty maps empty, and no step that *)
(* stays in the round removes an entry from any of these maps: they are    *)
(* emptied at the round start and at no other point.                       *)
(***************************************************************************)
Keeps(m, m2) == DOMAIN m \subseteq DOMAIN m2

C18_ClearedAtRoundStart ==
    [][\A room \in RoomIds :
          Registered(room)
          => LET g == rooms[room]
                 g2 == rooms'[room]
             IN  IF g2.round # g.round
                   THEN /\ g2.round = g.round + 1
                        /\ g2.category = None
                        /\ g2.questions = EmptyDict
                        /\ g2.answers = EmptyDict
                        /\ g2.difficulties = EmptyDict
                   ELSE /\ Keeps(g.questions, g2.questions)
                        /\ Keeps(g.answers, g2.answers)
                        /\ Keeps(g.difficulties, g2.difficulties)]_vars

\* a later round has just started: a player has points from an answer of an
\* earlier round, and the category and the three maps are clear
C18_Witness ==
    \E room \in DOMAIN rooms : \E sid \in PlayerSids(rooms[room]) :
        /\ rooms[room].round >= 2
        /\ ScoreOf(rooms[room], sid) > 0
        /\ rooms[room].category = None
        /\ rooms[room].questions = EmptyDict
        /\ rooms[room].answers = EmptyDict
        /\ rooms[room].difficulties = EmptyDict

(***************************************************************************)
(* C20.  As long as no identity joins again after having been picker,      *)
(* `round` equals the sum of all players' picker counts, and `round` never *)
(* decreases: a new room has round 0 and no counts, no step lowers         *)
(* `round`, and every step other than the join of an identity that has     *)
(* been picker keeps `round` equal to the sum.                             *)
(***************************************************************************)
RECURSIVE SumOver(_, _)
SumOver(f, S) ==
    IF S = {} THEN 0
    ELSE LET x == CHOOSE y \in S : TRUE
         IN  f[x] + SumOver(f, S \ {x})

SumOfPickerCounts(g) == SumOver(g.picker_counts, PlayerSids(g))

\* the step is the join of an identity whose picker count is not 0
RejoinOfPicker(room) ==
    \E sid \in DOMAIN rooms[room].picker_counts :
        /\ rooms[room].picker_counts[sid] > 0
        /\ \E name \in Names[sid] : on_join_room(room, sid, name)

C20_RoundIsSumOfPickerCounts ==
    [][\A room \in RoomIds :
          /\ (room \notin DOMAIN rooms /\ room \in DOMAIN rooms')
             => /\ rooms'[room].round = 0
                /\ SumOfPickerCounts(rooms'[room]) = 0
          /\ Registered(room)
             => /\ rooms'[room].round >= rooms[room].round
                /\ (/\ rooms[room].round = SumOfPickerCounts(rooms[room])
                    /\ ~RejoinOfPicker(room))
                   => rooms'[room].round = SumOfPickerCounts(rooms'[room])]_vars

\* a started game of two players, one of whom has been picker and one not,
\* with `round` the sum of their counts
C20_Witness ==
    \E room \in DOMAIN rooms : \E sid, other \in PlayerSids(rooms[room]) :
        /\ rooms[room].picker_counts[sid] >= 1
        /\ rooms[room].picker_counts[other] = 0
        /\ rooms[room].round >= 1
        /\ rooms[room].round = SumOfPickerCounts(rooms[room])

(***************************************************************************)
(* C19.  A started game with at least one player eventually reaches game   *)
(* over, when the scheduled round transitions run and, in every round, the *)
(* picker chooses an offered category and every joined player chooses a    *)
(* valid difficulty and submits an answer (weak fairness on these).        *)
(***************************************************************************)
C19_EventuallyGameOver ==
    \A room \in RoomIds :
        (/\ room \in DOMAIN rooms
         /\ rooms[room].round >= 1
         /\ rooms[room].players # <<>>)
        ~> (room \in DOMAIN over /\ over[room])

====
